---- MODULE Spec2Model ----
(***************************************************************************)
(* Model of the vyper compile server (src/server.py, src/https_server.py). *)
(*                                                                         *)
(* One aiohttp event loop runs the request handlers; a handler runs        *)
(* atomically from one await to the next.  POST /compile hands _compile    *)
(* to a ThreadPoolExecutor of 4 threads, awaits its result, and only then  *)
(* draws an identifier and writes the global dictionary                    *)
(* compilation_results.  GET /status and GET /artifacts read it.           *)
(*                                                                         *)
(* The two source files are two builds of the same server; the variable    *)
(* `variant` says which one is running.                                    *)
(***************************************************************************)
EXTENDS Naturals, Integers, Sequences, FiniteSets, TLC

VARIABLES
    variant,              \* which file is running: "server" or "https_server"
    handler,              \* handler[r]: position of the coroutine compile_it of request r
    body,                 \* body[r]: the JSON body request r carried (data)
    task,                 \* task[r]: state of the executor work item running _compile(data)
    result,               \* result[r]: what the work item's future holds
    queue,                \* the executor's FIFO work queue (request numbers)
    compilation_results,  \* the global dictionary: id -> [status, data]
    response,             \* response[r]: the HTTP response sent for request r
    reply                 \* the response of the GET handled by the latest step, if it was one

vars == <<variant, handler, body, task, result, queue, compilation_results,
          response, reply>>

----------------------------------------------------------------------------
(* Bounds of the model *)

\* number of POST /compile requests of a run of Spec
MaxRequests == 2
\* number of POST /compile requests of a run of SpecLoad (more than the pool holds)
MaxLoad == 5
\* number of POST /compile requests of a run of SpecFifo (two more than the pool holds)
MaxFifo == 6
----------------------------------------------------------------------------
(* Request bodies *)

\* source paths, as sequences of characters: "d/a.v" and "b"
KeyA == <<"d", "/", "a", ".", "v">>
KeyB == <<"b">>

GoodCode  == "good"     \* a program the compiler accepts
BadCode   == "bad"      \* a program the compiler rejects with a diagnostic
CrashCode == "crash"    \* a program on which the compiler raises another exception
NonStr    == "<int 7>"  \* a "content" that is not a string (and is truthy)

Entry(key, content) == [key |-> key, content |-> content]

MissingSources == [hasSources |-> FALSE, sources |-> <<>>]
EmptySources   == [hasSources |-> TRUE,  sources |-> <<>>]
WithSources(s) == [hasSources |-> TRUE,  sources |-> s]

NoBody == [hasSources |-> FALSE, sources |-> <<"-">>]

Bodies ==
    { MissingSources,
      EmptySources,
      WithSources(<<Entry(KeyA, "")>>),
      WithSources(<<Entry(KeyA, GoodCode), Entry(KeyB, BadCode)>>),
      WithSources(<<Entry(KeyB, BadCode)>>),
      WithSources(<<Entry(KeyA, CrashCode)>>) }

LoadBodies ==
    { WithSources(<<Entry(KeyA, GoodCode)>>) }

----------------------------------------------------------------------------
(* The external compiler, vyper.compiler.compile_code: a black box.  Its    *)
(* outcome depends on the source text only.                                 *)

VyperException(text) ==
    [type |-> "VyperException", text |-> text, lineno |-> 1, col_offset |-> 0]
OtherException(text) ==
    [type |-> "Exception", text |-> text, lineno |-> 0, col_offset |-> 0]

\* str(e)
str(e) == e.text

Returned(out_dict) == [kind |-> "out", out_dict |-> out_dict, exc |-> OtherException("")]
Raised(exc)        == [kind |-> "raise", out_dict |-> <<>>, exc |-> exc]

\* the dictionary compile_code returns for an accepted program
OutDict(code) ==
    [abi |-> <<"abi", code>>,
     bytecode |-> <<"bytecode", code>>,
     bytecode_runtime |-> <<"bytecode_runtime", code>>,
     method_identifiers |-> <<"method_identifiers", code>>]

\* the outcomes compile_code(code, ...) can have
compile_code(code) ==
    CASE code = GoodCode  -> { Returned(OutDict(code)) }
      [] code = BadCode   -> { Raised(VyperException("SyntaxException: line 1")) }
      [] code = CrashCode -> { Raised(OtherException("RecursionError in codegen")) }
      [] code = NonStr    -> { Raised(OtherException("TypeError: expected str")) }
      [] OTHER            -> { Returned(OutDict(code)),
                               Raised(VyperException("SyntaxException: line 1")) }

----------------------------------------------------------------------------
(* String helpers of _compile *)

\* '.' in s
Contains(s, c) == \E i \in 1..Len(s) : s[i] = c

\* s.split(c)[-1]: what follows the last c (all of s when c is not in s)
SplitLast(s, c) ==
    IF Contains(s, c)
    THEN LET i == CHOOSE k \in 1..Len(s) :
                      s[k] = c /\ \A j \in (k+1)..Len(s) : s[j] # c
         IN  SubSeq(s, i + 1, Len(s))
    ELSE s

\* s.split(c)[0]: what precedes the first c (all of s when c is not in s)
SplitFirst(s, c) ==
    IF Contains(s, c)
    THEN LET i == CHOOSE k \in 1..Len(s) :
                      s[k] = c /\ \A j \in 1..(k-1) : s[j] # c
         IN  SubSeq(s, 1, i - 1)
    ELSE s

\* isinstance(code, str)
isinstance_str(code) == code # NonStr

----------------------------------------------------------------------------
(* _compile: what the worker thread computes *)

\* what a call of _compile ends with: a returned pair (out, status) or an exception
Return(out, status) == [kind |-> "return", out |-> out, status |-> status,
                        exc |-> OtherException("")]
Raise(exc)          == [kind |-> "raise", out |-> <<>>, status |-> 0, exc |-> exc]
NoResult            == [kind |-> "none", out |-> <<>>, status |-> 0,
                        exc |-> OtherException("")]

Failed(message) == [status |-> "failed", message |-> message]

\* a validation that answers 200 instead of 400
Validate_Status200(data) ==
    IF ~data.hasSources THEN Return(Failed("Missing sources key"), 200)
    ELSE IF data.sources = <<>> THEN Return(Failed("No sources provided"), 200)
    ELSE NoResult

\* the first lines of _compile: "sources" must exist and hold at least one
\* file; NoResult when it does and _compile goes on
Validate(data) ==
    IF ~data.hasSources THEN Return(Failed("Missing sources key"), 400)
    ELSE IF data.sources = <<>> THEN Return(Failed("No sources provided"), 400)
    ELSE NoResult

\* src/server.py _compile, with oc the outcome of its compile_code call
_compile_server(data, oc) ==
    IF Validate(data) # NoResult THEN Validate(data)
    ELSE
      LET first_source_key == data.sources[1].key
          code == data.sources[1].content
      IN
      IF code = "" THEN Return(Failed("No code provided in sources"), 400)
      ELSE IF ~isinstance_str(code)
      THEN Return(Failed("Code must be a non-empty string"), 400)
      ELSE IF oc.kind = "raise"
      THEN IF oc.exc.type = "VyperException"
           THEN Return([status |-> "failed", message |-> str(oc.exc),
                        column |-> oc.exc.col_offset, line |-> oc.exc.lineno], 400)
           ELSE Raise(oc.exc)
      ELSE
        LET contract_name ==
                IF Contains(first_source_key, ".")
                THEN SplitFirst(SplitLast(first_source_key, "/"), ".")
                ELSE <<"C", "o", "n", "t", "r", "a", "c", "t">>
            artifact ==
                [manifest |-> "ethpm/3",
                 sources |-> data.sources,
                 contractTypes |->
                     [name |-> contract_name,
                      contractName |-> contract_name,
                      sourceId |-> first_source_key,
                      deploymentBytecode |-> oc.out_dict.bytecode,
                      runtimeBytecode |-> oc.out_dict.bytecode_runtime,
                      abi |-> oc.out_dict.abi],
                 methodIdentifiers |-> oc.out_dict.method_identifiers]
        IN Return(artifact, 200)

\* src/https_server.py _compile, with oc the outcome of its compile_code call
_compile_https(data, oc) ==
    IF Validate(data) # NoResult THEN Validate(data)
    ELSE
      LET first_source_key == data.sources[1].key
          code == data.sources[1].content
      IN
      IF oc.kind = "raise"
      THEN IF oc.exc.type = "VyperException"
           THEN Return(Failed(str(oc.exc)), 400)
           ELSE Return(Failed("Internal compilation error"), 500)
      ELSE
        LET contract_name == SplitFirst(SplitLast(first_source_key, "/"), ".")
            artifact ==
                [manifest |-> "ethpm/3",
                 sources |-> <<Entry(first_source_key, code)>>,
                 contractTypes |->
                     [name |-> contract_name,
                      contractName |-> contract_name,
                      sourceId |-> first_source_key,
                      deploymentBytecode |-> oc.out_dict.bytecode,
                      runtimeBytecode |-> oc.out_dict.bytecode_runtime,
                      abi |-> oc.out_dict.abi,
                      methodIdentifiers |-> oc.out_dict.method_identifiers]]
        IN Return(artifact, 200)

_compile(v, data, oc) ==
    IF v = "server" THEN _compile_server(data, oc) ELSE _compile_https(data, oc)

\* the source text the compiler is called on, when it is called
FirstCode(data) ==
    IF data.hasSources /\ data.sources # <<>> THEN data.sources[1].content ELSE ""

\* every way a call _compile(data) of build v can end
_compileResults(v, data) ==
    { _compile(v, data, oc) : oc \in compile_code(FirstCode(data)) }

\* the shape of a stored `data`: a compiled artifact or an error object
IsArtifact(d) == "manifest" \in DOMAIN d
IsError(d)    == "message" \in DOMAIN d

----------------------------------------------------------------------------
(* Identifiers *)

\* values str(uuid.uuid4()) can take, as sequences of characters (shortened
\* to 12): the first two agree on their first 10 characters
Uuid1 == <<"3", "f", "2", "a", "9", "1", "c", "4", "-", "7", "e", "1">>
Uuid2 == <<"3", "f", "2", "a", "9", "1", "c", "4", "-", "7", "0", "b">>
Uuid3 == <<"b", "0", "7", "e", "5", "5", "d", "0", "-", "1", "e", "1">>

UuidSpace == {Uuid1, Uuid2, Uuid3}

\* "tmp" + str(uuid.uuid4())[:10]
unique_id(u) == <<"t", "m", "p">> \o SubSeq(u, 1, 10)

IdSpace == { unique_id(u) : u \in UuidSpace }
NoId == <<>>

----------------------------------------------------------------------------
(* The worker pool and the store *)

\* ThreadPoolExecutor(max_workers=4)
max_workers == 4

Requests == DOMAIN handler

\* the work items a pool thread is executing now
Running == { r \in Requests : task[r] = "running" }

\* a pool that starts a thread for every work item
PoolHasFreeSlot_Unbounded == TRUE

\* a pool thread is free to take the next work item
PoolHasFreeSlot == Cardinality(Running) < max_workers

\* 'SUCCESS' unless the status is 500
StatusText_Not500(status) == IF status # 500 THEN "SUCCESS" ELSE "FAILURE"

\* 'SUCCESS' if status == 200 else 'FAILURE'
StatusText(status) == IF status = 200 THEN "SUCCESS" ELSE "FAILURE"

\* a handler that answers without writing the store
StoreRecord_Dropped(store, id, out, status) == store

\* a write that rebinds the dictionary to the new record alone
StoreRecord_Rebind(store, id, out, status) ==
    [x \in {id} |-> [status |-> StatusText(status), data |-> out]]

\* a write that leaves out the conditional and always stores 'SUCCESS'
StoreRecord_Success(store, id, out, status) ==
    [x \in DOMAIN store \cup {id} |->
        IF x = id THEN [status |-> "SUCCESS", data |-> out] ELSE store[x]]

\* compilation_results[unique_id] = {'status': ..., 'data': out}
StoreRecord(store, id, out, status) ==
    [x \in DOMAIN store \cup {id} |->
        IF x = id THEN [status |-> StatusText(status), data |-> out] ELSE store[x]]

NoResponse == [code |-> 0, id |-> NoId]

\* a response that leaves out status=status (aiohttp then answers 200)
JsonResponse_Always200(id, status) == [code |-> 200, id |-> id]

\* web.json_response(unique_id, status=status, headers=headers)
JsonResponse(id, status) == [code |-> status, id |-> id]
NoReply    == [route |-> "none", id |-> NoId, code |-> 0, text |-> "", json |-> <<>>]

\* a status route that never finds the record
check_status_NotFound(store, comp_id) ==
    [route |-> "status", id |-> comp_id, code |-> 404,
     text |-> "NOT FOUND", json |-> <<>>]

\* check_status: GET /status/{id}
check_status(store, comp_id) ==
    IF comp_id \in DOMAIN store
    THEN [route |-> "status", id |-> comp_id, code |-> 200,
          text |-> store[comp_id].status, json |-> <<>>]
    ELSE [route |-> "status", id |-> comp_id, code |-> 404,
          text |-> "NOT FOUND", json |-> <<>>]

\* get_artifacts: GET /artifacts/{id}
get_artifacts(store, comp_id) ==
    IF comp_id \in DOMAIN store
    THEN [route |-> "artifacts", id |-> comp_id, code |-> 200,
          text |-> "", json |-> store[comp_id].data]
    ELSE [route |-> "artifacts", id |-> comp_id, code |-> 404,
          text |-> "NOT FOUND", json |-> <<>>]

----------------------------------------------------------------------------
(* Initial states *)

InitFor(n) ==
    /\ variant \in {"server", "https_server"}
    /\ handler = [r \in 1..n |-> "idle"]
    /\ body = [r \in 1..n |-> NoBody]
    /\ task = [r \in 1..n |-> "none"]
    /\ result = [r \in 1..n |-> NoResult]
    /\ queue = <<>>
    /\ compilation_results = <<>>
    /\ response = [r \in 1..n |-> NoResponse]
    /\ reply = NoReply

Init == InitFor(MaxRequests)

InitLoad == InitFor(MaxLoad)

InitFifo == InitFor(MaxFifo)

----------------------------------------------------------------------------
(* Actions *)

\* a compile_it that schedules _compile and answers at once, without awaiting it
Post_NoAwait(r, data) ==
    /\ handler[r] = "idle"
    /\ \A q \in Requests : q < r => handler[q] # "idle"
    /\ handler' = [handler EXCEPT ![r] = "responded"]
    /\ body' = [body EXCEPT ![r] = data]
    /\ task' = [task EXCEPT ![r] = "queued"]
    /\ queue' = Append(queue, r)
    /\ \E u \in UuidSpace :
          /\ compilation_results' =
                StoreRecord(compilation_results, unique_id(u), Failed("pending"), 0)
          /\ response' = [response EXCEPT ![r] = JsonResponse(unique_id(u), 200)]
    /\ reply' = NoReply
    /\ UNCHANGED <<variant, result>>

\* a compile_it that cannot be entered while a compilation is queued or
\* running (the compiler called on the event loop's own thread)
Post_Blocking(r, data) ==
    /\ handler[r] = "idle"
    /\ \A q \in Requests : q < r => handler[q] # "idle"
    /\ \A q \in Requests : task[q] \notin {"queued", "running"}
    /\ handler' = [handler EXCEPT ![r] = "awaiting"]
    /\ body' = [body EXCEPT ![r] = data]
    /\ task' = [task EXCEPT ![r] = "queued"]
    /\ queue' = Append(queue, r)
    /\ reply' = NoReply
    /\ UNCHANGED <<variant, result, compilation_results, response>>

\* compile_it up to its await: the body is read and _compile(data) is handed
\* to the pool (run_in_executor), where it waits in the work queue.
\* Requests are numbered in their order of arrival.
Post(r, data) ==
    /\ handler[r] = "idle"
    /\ \A q \in Requests : q < r => handler[q] # "idle"
    /\ handler' = [handler EXCEPT ![r] = "awaiting"]
    /\ body' = [body EXCEPT ![r] = data]
    /\ task' = [task EXCEPT ![r] = "queued"]
    /\ queue' = Append(queue, r)
    /\ reply' = NoReply
    /\ UNCHANGED <<variant, result, compilation_results, response>>

\* a pool whose threads take the newest work item first
Start_Lifo(r) ==
    /\ queue # <<>>
    /\ r = queue[Len(queue)]
    /\ PoolHasFreeSlot
    /\ task' = [task EXCEPT ![r] = "running"]
    /\ queue' = SubSeq(queue, 1, Len(queue) - 1)
    /\ reply' = NoReply
    /\ UNCHANGED <<variant, handler, body, result, compilation_results, response>>

\* a free pool thread takes the oldest work item and starts _compile
Start(r) ==
    /\ queue # <<>>
    /\ r = Head(queue)
    /\ PoolHasFreeSlot
    /\ task' = [task EXCEPT ![r] = "running"]
    /\ queue' = Tail(queue)
    /\ reply' = NoReply
    /\ UNCHANGED <<variant, handler, body, result, compilation_results, response>>

\* a _compile that publishes its outcome into the store from its pool thread
Finish_WritesStore(r) ==
    /\ task[r] = "running"
    /\ \E res \in _compileResults(variant, body[r]), u \in UuidSpace :
          /\ result' = [result EXCEPT ![r] = res]
          /\ compilation_results' =
                IF res.kind = "return"
                THEN StoreRecord(compilation_results, unique_id(u), res.out, res.status)
                ELSE compilation_results
    /\ task' = [task EXCEPT ![r] = "done"]
    /\ reply' = NoReply
    /\ UNCHANGED <<variant, handler, body, queue, response>>

\* _compile returns or raises in its pool thread; the future is resolved.
\* The store is not touched here.
Finish(r) ==
    /\ task[r] = "running"
    /\ \E res \in _compileResults(variant, body[r]) :
          result' = [result EXCEPT ![r] = res]
    /\ task' = [task EXCEPT ![r] = "done"]
    /\ reply' = NoReply
    /\ UNCHANGED <<variant, handler, body, queue, compilation_results, response>>

\* compile_it after its await, when _compile returned (out, status): draw the
\* identifier, write the store, answer with the identifier and status.
Resume(r) ==
    /\ handler[r] = "awaiting"
    /\ task[r] = "done"
    /\ result[r].kind = "return"
    /\ \E u \in UuidSpace :
          /\ compilation_results' =
                StoreRecord(compilation_results, unique_id(u), result[r].out,
                            result[r].status)
          /\ response' = [response EXCEPT ![r] =
                            JsonResponse(unique_id(u), result[r].status)]
    /\ handler' = [handler EXCEPT ![r] = "responded"]
    /\ reply' = NoReply
    /\ UNCHANGED <<variant, body, task, result, queue>>

\* compile_it after its await, when _compile raised: the exception leaves the
\* handler and aiohttp answers 500 without a body of the handler's.
ResumeRaise(r) ==
    /\ handler[r] = "awaiting"
    /\ task[r] = "done"
    /\ result[r].kind = "raise"
    /\ response' = [response EXCEPT ![r] = [code |-> 500, id |-> NoId]]
    /\ handler' = [handler EXCEPT ![r] = "raised"]
    /\ reply' = NoReply
    /\ UNCHANGED <<variant, body, task, result, queue, compilation_results>>

\* the caller disconnects while compile_it is suspended at its await: the
\* handler is cancelled there.  A work item still in the queue is cancelled
\* with it; one that is running keeps running, and its result is dropped.
Disconnect(r) ==
    /\ handler[r] = "awaiting"
    /\ handler' = [handler EXCEPT ![r] = "cancelled"]
    /\ IF task[r] = "queued"
       THEN /\ task' = [task EXCEPT ![r] = "cancelled"]
            /\ queue' = SelectSeq(queue, LAMBDA q : q # r)
       ELSE UNCHANGED <<task, queue>>
    /\ reply' = NoReply
    /\ UNCHANGED <<variant, body, result, compilation_results, response>>

\* GET /status/{id}
GetStatus(id) ==
    /\ reply' = check_status(compilation_results, id)
    /\ UNCHANGED <<variant, handler, body, task, result, queue,
                   compilation_results, response>>

\* GET /artifacts/{id}
GetArtifacts(id) ==
    /\ reply' = get_artifacts(compilation_results, id)
    /\ UNCHANGED <<variant, handler, body, task, result, queue,
                   compilation_results, response>>

Next ==
    \/ \E r \in Requests, data \in Bodies : Post(r, data)
    \/ \E r \in Requests : Start(r)
    \/ \E r \in Requests : Finish(r)
    \/ \E r \in Requests : Resume(r)
    \/ \E r \in Requests : ResumeRaise(r)
    \/ \E r \in Requests : Disconnect(r)
    \/ \E id \in IdSpace : GetStatus(id)
    \/ \E id \in IdSpace : GetArtifacts(id)

NextLoad ==
    \/ \E r \in Requests, data \in LoadBodies : Post(r, data)
    \/ \E r \in Requests : Start(r)
    \/ \E r \in Requests : Finish(r)
    \/ \E r \in Requests : Resume(r)
    \/ \E r \in Requests : Disconnect(r)

Spec == Init /\ [][Next]_vars

SpecLoad == InitLoad /\ [][NextLoad]_vars

\* submissions that all run to their answer: the order in which the pool
\* starts the work items
NextFifo ==
    \/ \E r \in Requests, data \in LoadBodies : Post(r, data)
    \/ \E r \in Requests : Start(r)
    \/ \E r \in Requests : Finish(r)
    \/ \E r \in Requests : Resume(r)

SpecFifo == InitFifo /\ [][NextFifo]_vars

----------------------------------------------------------------------------
(* Vocabulary of the claims *)

\* request r was answered with an identifier
HasId(r) == response[r].id # NoId

\* the handler of request r has ended (answered, raised or cancelled)
Ended(r) == handler[r] \in {"responded", "raised", "cancelled"}

\* `sources` is missing or empty
StructurallyInvalid(data) == ~data.hasSources \/ data.sources = <<>>

ValidationErrors ==
    { Failed("Missing sources key"), Failed("No sources provided") }

----------------------------------------------------------------------------
(* C1 *)

\* C1: every identifier a POST /compile response carries has a record in the
\* store from the moment of the response on, so GET /status and GET /artifacts
\* for it never answer 404, whatever else has happened in between.
C1_VisibilityOrdering ==
    \A r \in Requests :
        HasId(r) =>
            /\ response[r].id \in DOMAIN compilation_results
            /\ check_status(compilation_results, response[r].id).code = 200
            /\ get_artifacts(compilation_results, response[r].id).code = 200
            /\ (reply.route # "none" /\ reply.id = response[r].id => reply.code = 200)

C1_Witness ==
    \E r, q \in Requests :
        /\ HasId(r)
        /\ handler[q] = "awaiting"
        /\ reply.route = "status"
        /\ reply.id = response[r].id
        /\ reply.code = 200

----------------------------------------------------------------------------
(* C2 *)

\* C2 as stated: the identifier is returned without waiting for the
\* compilation, so a request whose compilation is still queued or running
\* already has its identifier.
C2_FireAndForget ==
    \A r \in Requests :
        handler[r] # "cancelled" /\ task[r] \in {"queued", "running"} => HasId(r)

\* C2 amended: the identifier is returned only after the compilation of that
\* request has finished and returned; while it is queued or running the
\* handler is suspended and no identifier exists.
C2_IdAfterCompile ==
    \A r \in Requests :
        /\ HasId(r) => task[r] = "done" /\ result[r].kind = "return"
        /\ task[r] \in {"queued", "running"} => ~HasId(r)

C2_Witness ==
    \E r, q \in Requests :
        /\ HasId(r)
        /\ task[r] = "done"
        /\ handler[q] = "awaiting"
        /\ task[q] = "running"

----------------------------------------------------------------------------
(* C3 *)

\* C3 as stated: a submission whose `sources` is missing or empty gets no
\* identifier and leaves no record in the store.
C3_RejectedBeforeJob ==
    /\ \A r \in Requests :
          handler[r] # "idle" /\ StructurallyInvalid(body[r]) => ~HasId(r)
    /\ \A id \in DOMAIN compilation_results :
          compilation_results[id].data \notin ValidationErrors

\* C3 amended: a submission whose `sources` is missing or empty goes through
\* the worker pool like any other and is answered HTTP 400, with an
\* identifier under which a FAILURE record holding the validation message is
\* stored at that moment.
C3_InvalidGetsFailureRecord ==
    [][\A r \in Requests :
          ( /\ handler[r] = "awaiting"
            /\ handler'[r] \notin {"awaiting", "cancelled"}
            /\ StructurallyInvalid(body[r]) )
          => /\ handler'[r] = "responded"
             /\ task[r] = "done"
             /\ response'[r].code = 400
             /\ response'[r].id \in IdSpace
             /\ response'[r].id \in DOMAIN compilation_results'
             /\ compilation_results'[response'[r].id].status = "FAILURE"
             /\ compilation_results'[response'[r].id].data \in ValidationErrors
      ]_vars

C3_Witness ==
    \E r \in Requests :
        /\ body[r] = EmptySources
        /\ handler[r] = "responded"
        /\ response[r].code = 400
        /\ HasId(r)
        /\ compilation_results[response[r].id] =
              [status |-> "FAILURE", data |-> Failed("No sources provided")]

----------------------------------------------------------------------------
(* C4 *)

\* C4: no two submissions ever receive the same job identifier.
C4_Uniqueness ==
    \A r, q \in Requests :
        r # q /\ HasId(r) /\ HasId(q) => response[r].id # response[q].id

----------------------------------------------------------------------------
(* C5 *)

\* C5: a record that is in the store (it holds a terminal status and its
\* result) is never changed again by any step.
C5_SingleResolution ==
    [][\A id \in DOMAIN compilation_results :
          /\ id \in DOMAIN compilation_results'
          /\ compilation_results'[id] = compilation_results[id]
      ]_vars

----------------------------------------------------------------------------
(* C6 *)

\* C6: however many jobs are submitted, at most max_workers = 4 calls of
\* _compile execute at the same time; the work items beyond them wait in the
\* queue, not yet started.
C6_PoolBound ==
    /\ Cardinality(Running) <= 4
    /\ \A i \in 1..Len(queue) : task[queue[i]] = "queued"
    /\ \A r \in Requests : task[r] = "queued" => \E i \in 1..Len(queue) : queue[i] = r

C6_Witness ==
    /\ Cardinality(Running) = 4
    /\ Len(queue) >= 1
    /\ \E r \in Requests : handler[r] = "cancelled" /\ task[r] = "running"

----------------------------------------------------------------------------
(* C7 *)

\* C7 as stated: every structurally valid request is answered 200 with the
\* job id, also when its compilation fails; 400 only answers a request whose
\* `sources` is missing or empty.
C7_Always200WhenValid ==
    \A r \in Requests :
        handler[r] \in {"responded", "raised"} =>
            /\ ~StructurallyInvalid(body[r]) => response[r].code = 200 /\ HasId(r)
            /\ response[r].code = 400 => StructurallyInvalid(body[r])

\* C7 amended: the response is HTTP 200 exactly when the compilation
\* succeeded (_compile returned an artifact); a compilation that fails with a
\* compiler diagnostic is answered HTTP 400 with the job id, the same code
\* that answers a request whose `sources` is missing or empty.
C7_CodeFollowsOutcome ==
    \A r \in Requests :
        handler[r] \in {"responded", "raised"} =>
            /\ response[r].code = 200
                  <=> (result[r].kind = "return" /\ IsArtifact(result[r].out))
            /\ StructurallyInvalid(body[r]) => response[r].code = 400
            /\ FirstCode(body[r]) = BadCode => response[r].code = 400 /\ HasId(r)

C7_Witness ==
    \E r, q \in Requests :
        /\ handler[r] = "responded" /\ FirstCode(body[r]) = BadCode
        /\ response[r].code = 400 /\ HasId(r)
        /\ handler[q] = "responded" /\ FirstCode(body[q]) = GoodCode
        /\ response[q].code = 200

----------------------------------------------------------------------------
(* C8 *)

\* C8: an unexpected (non-diagnostic) exception of the compiler is captured
\* per job: the handler does not raise, and the job is answered with an
\* identifier whose outcome is a failure with the generic message, not the
\* raw exception text.
C8_FaultCaptured ==
    \A r \in Requests :
        FirstCode(body[r]) = CrashCode /\ task[r] = "done" =>
            /\ result[r].kind = "return"
            /\ result[r].out = Failed("Internal compilation error")
            /\ StatusText(result[r].status) = "FAILURE"
            /\ handler[r] # "raised"
            /\ handler[r] = "responded" => HasId(r)

----------------------------------------------------------------------------
(* C9 *)

\* C9: every job handed to the worker pool ends with a record in the store
\* that its identifier retrieves, also when the caller disconnected: once the
\* handler of a request and its work item have ended, the record is there.
C9_RunsToCompletion ==
    \A r \in Requests :
        Ended(r) /\ task[r] \in {"done", "cancelled"} =>
            /\ HasId(r)
            /\ response[r].id \in DOMAIN compilation_results

----------------------------------------------------------------------------
(* C10 *)

\* C10: every record holds exactly one outcome, consistent with its status:
\* SUCCESS exactly with an artifact, FAILURE exactly with an error object.
C10_OutcomeMatchesStatus ==
    \A id \in DOMAIN compilation_results :
        LET rec == compilation_results[id] IN
        /\ rec.status \in {"SUCCESS", "FAILURE"}
        /\ rec.status = "SUCCESS" <=> IsArtifact(rec.data)
        /\ rec.status = "FAILURE" <=> IsError(rec.data)
        /\ IsArtifact(rec.data) # IsError(rec.data)

C10_Witness ==
    \E a, b \in DOMAIN compilation_results :
        /\ compilation_results[a].status = "SUCCESS"
        /\ IsArtifact(compilation_results[a].data)
        /\ compilation_results[b].status = "FAILURE"
        /\ IsError(compilation_results[b].data)

----------------------------------------------------------------------------
(* C11 *)

\* C11: GET /status/{id} and GET /artifacts/{id} answer 404 NOT FOUND exactly
\* for the ids that have no record in the store and 200 for the others, and
\* the step that serves them changes nothing but the reply (the store and
\* every request keep their state).
C11_GetReadsOnly ==
    [][reply'.route # "none" =>
          /\ compilation_results' = compilation_results
          /\ <<handler, body, task, result, queue, response>>'
                = <<handler, body, task, result, queue, response>>
          /\ reply'.id \notin DOMAIN compilation_results
                => reply'.code = 404 /\ reply'.text = "NOT FOUND"
          /\ reply'.id \in DOMAIN compilation_results => reply'.code = 200
          /\ reply'.id \in DOMAIN compilation_results /\ reply'.route = "status"
                => reply'.text = compilation_results[reply'.id].status
          /\ reply'.id \in DOMAIN compilation_results /\ reply'.route = "artifacts"
                => reply'.json = compilation_results[reply'.id].data
      ]_vars

C11_Witness ==
    /\ reply.route = "artifacts"
    /\ reply.code = 404
    /\ DOMAIN compilation_results # {}
    /\ \E r \in Requests : handler[r] = "awaiting"

----------------------------------------------------------------------------
(* C12 *)

\* C12 as stated: the record of a job is created, with status Pending, before
\* its compilation is handed to the worker pool, so while the compilation is
\* queued or running the store holds a Pending record.
C12_CreateBeforeHandOff ==
    \A r \in Requests :
        handler[r] = "awaiting" /\ task[r] \in {"queued", "running"} =>
            \E id \in DOMAIN compilation_results :
                compilation_results[id].status \notin {"SUCCESS", "FAILURE"}

\* C12 amended: the record of a job is created only after its compilation has
\* been handed to the pool, has run and has returned: every step that writes
\* the store is the answer of a request whose work item is done, and the
\* record is born with its terminal status; no record is ever Pending, and
\* between submission and completion the job is not in the store at all.
C12_RecordAfterCompile ==
    /\ [](\A id \in DOMAIN compilation_results :
              compilation_results[id].status \in {"SUCCESS", "FAILURE"})
    /\ [][compilation_results' # compilation_results =>
             \E r \in Requests :
                /\ handler[r] = "awaiting" /\ handler'[r] = "responded"
                /\ task[r] = "done" /\ result[r].kind = "return"
                /\ DOMAIN compilation_results'
                      = DOMAIN compilation_results \cup {response'[r].id}
                /\ compilation_results'[response'[r].id] =
                      [status |-> StatusText(result[r].status), data |-> result[r].out]
         ]_vars

C12_Witness ==
    \E r, q \in Requests :
        /\ handler[r] = "responded"
        /\ response[r].id \in DOMAIN compilation_results
        /\ handler[q] = "awaiting" /\ task[q] = "queued"
        /\ reply.route = "status" /\ reply.code = 404

----------------------------------------------------------------------------
(* C13 *)

\* C13: a submission is never answered by writing its record under an
\* identifier that already has a record: such a write fails (DuplicateId)
\* instead of replacing the record that is there.
C13_NoSilentOverwrite ==
    [][\A r \in Requests :
          handler[r] = "awaiting" /\ handler'[r] = "responded" =>
              /\ response'[r].id \notin DOMAIN compilation_results
              /\ \A id \in DOMAIN compilation_results :
                    compilation_results'[id] = compilation_results[id]
      ]_vars

----------------------------------------------------------------------------
(* C14 *)

\* the request that arrives next, if the run has one left
NextArrival(r) ==
    handler[r] = "idle" /\ \A q \in Requests : q < r => handler[q] # "idle"

----------------------------------------------------------------------------
(* C15 *)

\* C15: the key set of the store only grows: an id that has a record before a
\* step has one after it, whatever the step is.
C15_KeysMonotonic ==
    [][DOMAIN compilation_results \subseteq DOMAIN compilation_results']_vars

C15_Witness ==
    /\ Cardinality(DOMAIN compilation_results) = 2
    /\ \A r \in Requests : handler[r] = "responded"
    /\ reply.route = "status"

----------------------------------------------------------------------------
(* C16 *)

\* C16: requests are numbered in the order of their hand-off to the pool.
\* The work item a pool thread starts is the oldest one waiting, so no work
\* item is started, running or done while an older one still waits; and while
\* work items wait with all 4 threads busy, the next POST /compile can still
\* be accepted (the handlers that wait are suspended, not blocking).
C16_FifoStart ==
    /\ [][\A r \in Requests :
             task[r] = "queued" /\ task'[r] = "running" =>
                 \A q \in Requests : task[q] = "queued" => r <= q
         ]_vars
    /\ [](\A r, q \in Requests :
             r < q /\ task[q] \in {"running", "done"} => task[r] # "queued")
    /\ [](\A q \in Requests :
             queue # <<>> /\ NextArrival(q) =>
                 \A data \in LoadBodies : ENABLED Post(q, data))

C16_Witness ==
    /\ Cardinality(Running) = 4
    /\ task[5] = "running"
    /\ queue = <<6>>
    /\ handler[6] = "awaiting"

----------------------------------------------------------------------------
(* C17 *)

\* C17: in the artifact of a request with several source entries, only the
\* first entry is compiled (it alone gives sourceId and the bytecode), and
\* `sources` carries every entry of the request, unchanged.
C17_RestCarriedThrough ==
    \A r \in Requests :
        result[r].kind = "return" /\ IsArtifact(result[r].out) =>
            /\ result[r].out.contractTypes.sourceId = body[r].sources[1].key
            /\ result[r].out.contractTypes.deploymentBytecode
                  = OutDict(body[r].sources[1].content).bytecode
            /\ result[r].out.sources = body[r].sources

----------------------------------------------------------------------------
(* C18 *)

\* C18: two submissions of the same valid source are answered with two
\* distinct ids, and each id retrieves a SUCCESS record with that request's
\* own artifact, the two artifacts being equal.
C18_SameSourceIndependent ==
    \A r, q \in Requests :
        ( /\ r # q
          /\ handler[r] = "responded" /\ handler[q] = "responded"
          /\ body[r] = body[q]
          /\ FirstCode(body[r]) = GoodCode )
        => /\ response[r].id # response[q].id
           /\ compilation_results[response[r].id].status = "SUCCESS"
           /\ compilation_results[response[r].id].data = result[r].out
           /\ compilation_results[response[r].id] = compilation_results[response[q].id]

----------------------------------------------------------------------------
(* C19 *)

\* C19: the store is written only by the step of compile_it that follows its
\* await, on the event loop: no step of the pool (a work item queued, started
\* or finished) changes the store, every change of the store is one handler
\* answering and adds or replaces one whole record, and every record a reader
\* can see has its status and its data.
C19_SingleWriter ==
    /\ [][(task' # task \/ result' # result \/ queue' # queue)
             => compilation_results' = compilation_results]_vars
    /\ [][compilation_results' # compilation_results =>
             /\ Cardinality({r \in Requests : handler'[r] # handler[r]}) = 1
             /\ \A r \in Requests :
                   handler'[r] # handler[r] =>
                       /\ handler[r] = "awaiting" /\ handler'[r] = "responded"
                       /\ \A id \in DOMAIN compilation_results :
                             id # response'[r].id =>
                                compilation_results'[id] = compilation_results[id]
         ]_vars
    /\ [](\A id \in DOMAIN compilation_results :
             /\ DOMAIN compilation_results[id] = {"status", "data"}
             /\ IsArtifact(compilation_results[id].data)
                   \/ IsError(compilation_results[id].data))

C19_Witness ==
    \E r, q \in Requests :
        /\ handler[r] = "responded"
        /\ response[r].id \in DOMAIN compilation_results
        /\ task[q] = "done" /\ handler[q] = "awaiting"
        /\ result[q].kind = "return"
        /\ reply.route = "artifacts" /\ reply.code = 200

----------------------------------------------------------------------------
(* C20 *)

\* C20: at the moment a POST /compile is answered with an id, the HTTP status
\* code agrees with the status stored under that id: the code is 200 exactly
\* when the stored status is SUCCESS, and otherwise the stored status is
\* FAILURE.
C20_CodeAgreesWithStatus ==
    [][\A r \in Requests :
          handler[r] = "awaiting" /\ handler'[r] = "responded" =>
              LET rec == compilation_results'[response'[r].id] IN
              /\ response'[r].code = 200 <=> rec.status = "SUCCESS"
              /\ response'[r].code # 200 => rec.status = "FAILURE"
              /\ response'[r].code \in {200, 400, 500}
      ]_vars

C20_Witness ==
    \E r, q \in Requests :
        /\ handler[r] = "responded" /\ response[r].code = 500
        /\ compilation_results[response[r].id].status = "FAILURE"
        /\ handler[q] = "responded" /\ response[q].code = 200
        /\ compilation_results[response[q].id].status = "SUCCESS"

====
